---- MODULE Spec2Model ----
(***************************************************************************)
(* Inventory-and-cart service (AppController over a Prisma/PostgreSQL      *)
(* store).  Every request handler is a process that runs from one store    *)
(* access (await) to the next; a single statement is one atomic step of    *)
(* the store.  A $transaction([...]) batch is all-or-nothing and takes two *)
(* steps: its statements run (the UPDATE of the Produto row takes the row  *)
(* lock, the nested write and the include read see the committed store and *)
(* the batch's own writes), and later it commits.  Until the commit the    *)
(* writes are invisible to every other request (READ COMMITTED, the        *)
(* default of PostgreSQL), and a statement that writes the locked Produto  *)
(* row waits for it.                                                       *)
(***************************************************************************)
EXTENDS Integers, FiniteSets, Sequences, TLC

\* ---------------------------------------------------------------- bounds
MaxProdutos == 2      \* product ids (uuids) that may ever be generated
MaxItens    == 2      \* cart line ids (uuids) that may ever be generated
MaxEstoque  == 2      \* largest estoque a request carries or a row starts with
MaxQtd      == 2      \* largest quantidade an add request carries
MaxOps      == 2      \* requests served in one behaviour

Procs   == {"r1", "r2"}            \* concurrent requests in flight
Nomes   == {"A", "B"}
Precos  == {1, 2}                  \* preco in a fixed unit, >= 0.01
Campos  == {"nome", "preco", "estoque"}
ProdIds == 1..MaxProdutos
\* quantidade of a POST /carrinho/itens body.  AdicionarItemDto declares
\* @Min(1), but bootstrap() registers no ValidationPipe and adicionarItem
\* never inspects the value, so zero and negative quantities reach the
\* handler like any other.
Quantidades == (0 - 1)..MaxQtd
usuarioId == "usuario-123"

\* ------------------------------------------------------------ the store
\* A store value d is a record [produtos, carrinhos, itens]:
\*   d.produtos  : id -> [nome, preco, estoque]
\*   d.carrinhos : id -> [usuarioId]
\*   d.itens     : id -> [quantidade, produtoId, carrinhoId]
Sem(f, k) == [x \in (DOMAIN f) \ {k} |-> f[x]]

\* Outcome of a store statement: the new store, or the code of the
\* PrismaClientKnownRequestError it throws (the store is left as it was).
\*   P2002 unique constraint, P2003 foreign key, P2025 record not found.
Falha(d, codigo) == [ok |-> FALSE, db |-> d, erro |-> codigo]
Exito(d) == [ok |-> TRUE, db |-> d, erro |-> "ok"]

\* Produto_nome_key: another product already carries this nome.
NomeEmUso(d, nome, menos) ==
    \E i \in (DOMAIN d.produtos) \ {menos} : d.produtos[i].nome = nome

\* Carrinho_usuarioId_key: findUnique({ where: { usuarioId } }).
CarrinhoDe(d, u) == {c \in DOMAIN d.carrinhos : d.carrinhos[c].usuarioId = u}

\* ItemCarrinho_produtoId_carrinhoId_key: the lines of (produto, carrinho).
LinhasDe(d, pid, cid) ==
    {i \in DOMAIN d.itens :
        d.itens[i].produtoId = pid /\ d.itens[i].carrinhoId = cid}

\* Lines that reference a product (ItemCarrinho_produtoId_fkey).
Referencias(d, pid) == {i \in DOMAIN d.itens : d.itens[i].produtoId = pid}

\* Variant of the increment whose where clause selects every product.
ProdutoIncrementaTodos(d, id, delta) ==
    IF id \in DOMAIN d.produtos
    THEN Exito([d EXCEPT !.produtos =
            [p \in DOMAIN d.produtos |->
                [d.produtos[p] EXCEPT !.estoque = @ + delta]]])
    ELSE Falha(d, "P2025")

\* Variant of the increment that moves twice the amount.
ProdutoIncrementaEmDobro(d, id, delta) ==
    IF id \in DOMAIN d.produtos
    THEN Exito([d EXCEPT !.produtos[id].estoque = @ + 2 * delta])
    ELSE Falha(d, "P2025")

\* prisma.produto.update({ where: {id}, data: {estoque: {increment: delta}} })
ProdutoIncrementa(d, id, delta) ==
    IF id \in DOMAIN d.produtos
    THEN Exito([d EXCEPT !.produtos[id].estoque = @ + delta])
    ELSE Falha(d, "P2025")

\* Variant of the upsert whose update branch overwrites the quantidade.
CarrinhoUpsertSubstitui(d, cid, pid, q, novoId) ==
    IF cid \notin DOMAIN d.carrinhos THEN Falha(d, "P2025")
    ELSE IF LinhasDe(d, pid, cid) # {}
    THEN Exito([d EXCEPT !.itens =
            [i \in DOMAIN d.itens |->
                IF i \in LinhasDe(d, pid, cid)
                THEN [d.itens[i] EXCEPT !.quantidade = q]
                ELSE d.itens[i]]])
    ELSE IF pid \notin DOMAIN d.produtos THEN Falha(d, "P2003")
    ELSE Exito([d EXCEPT !.itens =
            d.itens @@ (novoId :>
                [quantidade |-> q, produtoId |-> pid, carrinhoId |-> cid])])

\* prisma.carrinho.update({ where: {id: cid}, data: { itens: { upsert } } })
CarrinhoUpsertItem(d, cid, pid, q, novoId) ==
    IF cid \notin DOMAIN d.carrinhos THEN Falha(d, "P2025")
    ELSE IF LinhasDe(d, pid, cid) # {}
    THEN Exito([d EXCEPT !.itens =
            [i \in DOMAIN d.itens |->
                IF i \in LinhasDe(d, pid, cid)
                THEN [d.itens[i] EXCEPT !.quantidade = @ + q]
                ELSE d.itens[i]]])
    ELSE IF pid \notin DOMAIN d.produtos THEN Falha(d, "P2003")
    ELSE Exito([d EXCEPT !.itens =
            d.itens @@ (novoId :>
                [quantidade |-> q, produtoId |-> pid, carrinhoId |-> cid])])

\* prisma.carrinho.update({ where: {id: cid}, data: { itens: { delete: {id} } } })
CarrinhoDeleteItem(d, cid, itemId) ==
    IF /\ cid \in DOMAIN d.carrinhos
       /\ itemId \in DOMAIN d.itens
       /\ d.itens[itemId].carrinhoId = cid
    THEN Exito([d EXCEPT !.itens = Sem(d.itens, itemId)])
    ELSE Falha(d, "P2025")

\* Variant of the delete that takes the lines of the product with it.
ProdutoDeleteEmCascata(d, id) ==
    IF id \notin DOMAIN d.produtos THEN Falha(d, "P2025")
    ELSE Exito([d EXCEPT !.produtos = Sem(d.produtos, id),
                         !.itens = [i \in (DOMAIN d.itens) \ Referencias(d, id)
                                       |-> d.itens[i]]])

\* Variant of the delete that ignores the lines of the product.
ProdutoDeleteSemRestricao(d, id) ==
    IF id \notin DOMAIN d.produtos THEN Falha(d, "P2025")
    ELSE Exito([d EXCEPT !.produtos = Sem(d.produtos, id)])

\* prisma.produto.delete({ where: {id} }); ItemCarrinho_produtoId_fkey is
\* ON DELETE RESTRICT.
ProdutoDelete(d, id) ==
    IF id \notin DOMAIN d.produtos THEN Falha(d, "P2025")
    ELSE IF Referencias(d, id) # {} THEN Falha(d, "P2003")
    ELSE Exito([d EXCEPT !.produtos = Sem(d.produtos, id)])

\* Variant of the batch that keeps what the first statement wrote when the
\* second one fails.
TransacaoSemRollback(d, a, b) ==
    IF ~a.ok THEN Falha(d, a.erro)
    ELSE IF ~b.ok THEN Falha(a.db, b.erro)
    ELSE b

\* prisma.$transaction([s1, s2]) on store d: a is the outcome of s1 on d and
\* b the outcome of s2 on the store s1 left; a failure of either statement
\* rolls the whole batch back to d.
Transacao(d, a, b) ==
    IF ~a.ok THEN Falha(d, a.erro)
    ELSE IF ~b.ok THEN Falha(d, b.erro)
    ELSE b

\* Variant of the batch that upserts the line and leaves estoque alone.
TransacaoAdicionarSemEstoque(d, cid, pid, q, novoId) ==
    CarrinhoUpsertItem(d, cid, pid, q, novoId)

\* The batch of adicionarItem.
TransacaoAdicionar(d, cid, pid, q, novoId) ==
    LET a == ProdutoIncrementa(d, pid, 0 - q)
        b == CarrinhoUpsertItem(a.db, cid, pid, q, novoId)
    IN  Transacao(d, a, b)

\* Variant of the batch that deletes the line and leaves estoque alone.
TransacaoRemoverSemEstoque(d, cid, pid, item) ==
    CarrinhoDeleteItem(d, cid, item.id)

\* The batch of removerItem.
TransacaoRemover(d, cid, pid, item) ==
    LET a == ProdutoIncrementa(d, pid, item.quantidade)
        b == CarrinhoDeleteItem(a.db, cid, item.id)
    IN  Transacao(d, a, b)


\* ---------------------------------------------------------------- state
VARIABLES
    db,              \* the store: [produtos, carrinhos, itens]
    proxProduto,     \* next Produto id the store generates (uuid())
    proxItem,        \* next ItemCarrinho id the store generates (uuid())
    pc,              \* per request: the await it is suspended at
    op,              \* per request: the handler it runs (or ran last)
    arg,             \* per request: route parameter and body
    carrinhoId,      \* per request: carrinho.id of the resolved cart
    itemNoCarrinho,  \* per request: the line removerItem found in its cart
    carrinhoAtualizado, \* per request: the cart its uncommitted batch returned
    resultado,       \* per request: status of the response
    nops,            \* requests accepted so far
    ultima,          \* history: the last handler that finished
    visao,           \* the cart view in the body of the last response
    estoqueOriginal  \* history: estoque each product was created with

vars == << db, proxProduto, proxItem, pc, op, arg, carrinhoId,
           itemNoCarrinho, carrinhoAtualizado, resultado, nops, ultima,
           visao, estoqueOriginal >>

SemDados == [campos |-> {}, nome |-> "", preco |-> 0, estoque |-> 0 - 1]
SemArg   == [id |-> 0, quantidade |-> 0, dados |-> SemDados]
SemItem  == [id |-> 0, quantidade |-> 0]
SemCarrinho == [id |-> 0, usuarioId |-> "", itens |-> <<>>]
\* ultima: the handler that finished last, when it was a committed cart
\* batch: its product, the quantidade it moved, estoque and line quantidade
\* before it, and the committed batch on the same product that had finished
\* right before it.
Nenhuma  == [op |-> "nenhuma", produtoId |-> 0, quantidade |-> 0,
             estoqueAntes |-> 0, linhaAntes |-> 0, previa |-> "nenhuma",
             previaQuantidade |-> 0, previaEstoqueAntes |-> 0,
             previaLinhaAntes |-> 0]
Alterado == 0 - 1
\* The last response carried no cart view.
SemVisao == [id |-> 0, usuarioId |-> "", itens |-> <<>>, total |-> 0]

\* A request body for POST /produtos within the ranges CriarProdutoDto
\* declares.
DadosCriar ==
    {[campos |-> Campos, nome |-> n, preco |-> p, estoque |-> e] :
        n \in Nomes, p \in Precos, e \in 0..MaxEstoque}

\* A request body for PUT /produtos/:id within the ranges
\* AtualizarProdutoDto declares: any subset of the fields.
DadosAtualizar ==
    {d \in [campos : SUBSET Campos, nome : Nomes \cup {""},
            preco : Precos \cup {0}, estoque : (0 - 1)..MaxEstoque] :
        /\ ("nome" \in d.campos) <=> (d.nome # "")
        /\ ("preco" \in d.campos) <=> (d.preco # 0)
        /\ ("estoque" \in d.campos) <=> (d.estoque # 0 - 1)}

Ativo(x) == pc[x] # "idle"

\* Sum of quantidade over a set of lines.
RECURSIVE SomaQuantidade(_, _)
SomaQuantidade(d, S) ==
    IF S = {} THEN 0
    ELSE LET i == CHOOSE x \in S : TRUE IN
         d.itens[i].quantidade + SomaQuantidade(d, S \ {i})

\* Quantity the cart line of (pid, cid) holds; 0 when there is no line.
QuantidadeNaLinha(d, pid, cid) == SomaQuantidade(d, LinhasDe(d, pid, cid))
\* Quantity of a product reserved over all carts.
Reservado(d, pid) == SomaQuantidade(d, Referencias(d, pid))

EstoqueDe(d, pid) ==
    IF pid \in DOMAIN d.produtos THEN d.produtos[pid].estoque ELSE 0 - 1

\* Stores the service may be attached to when it starts: the catalog holds
\* none, one or two products that earlier criarProduto requests created (the
\* first with any estoque, the second with one unit), the owner's cart may
\* exist, and it may hold a line of one unit that an earlier adicionarItem
\* reserved from the first product.
Lojas ==
    {[e1 |-> e1, e2 |-> e2, c |-> c, m |-> m] :
        e1 \in (0 - 1)..MaxEstoque, e2 \in {0 - 1, 1},
        c \in BOOLEAN, m \in {0, 1}}

LojaValida(l) ==
    /\ l.e2 # 0 - 1 => l.e1 # 0 - 1
    /\ l.m > 0 => l.c /\ l.e1 # 0 - 1

Init ==
    /\ \E l \in Lojas :
          /\ LojaValida(l)
          /\ db = [produtos |->
                     IF l.e1 = 0 - 1 THEN <<>>
                     ELSE IF l.e2 = 0 - 1
                     THEN 1 :> [nome |-> "A", preco |-> 1, estoque |-> l.e1]
                     ELSE (1 :> [nome |-> "A", preco |-> 1, estoque |-> l.e1])
                          @@ (2 :> [nome |-> "B", preco |-> 2,
                                    estoque |-> l.e2]),
                   carrinhos |-> IF l.c THEN 1 :> [usuarioId |-> usuarioId]
                                 ELSE <<>>,
                   itens |-> IF l.m = 0 THEN <<>>
                             ELSE 1 :> [quantidade |-> l.m, produtoId |-> 1,
                                        carrinhoId |-> 1]]
          /\ proxProduto = IF l.e1 = 0 - 1 THEN 1
                           ELSE IF l.e2 = 0 - 1 THEN 2 ELSE 3
          /\ proxItem = IF l.m = 0 THEN 1 ELSE 2
          /\ estoqueOriginal =
                IF l.e1 = 0 - 1 THEN <<>>
                ELSE IF l.e2 = 0 - 1 THEN 1 :> (l.e1 + l.m)
                ELSE (1 :> (l.e1 + l.m)) @@ (2 :> l.e2)
    /\ pc = [r \in Procs |-> "idle"]
    /\ op = [r \in Procs |-> "nenhuma"]
    /\ arg = [r \in Procs |-> SemArg]
    /\ carrinhoId = [r \in Procs |-> 0]
    /\ itemNoCarrinho = [r \in Procs |-> SemItem]
    /\ carrinhoAtualizado = [r \in Procs |-> SemCarrinho]
    /\ resultado = [r \in Procs |-> "nenhum"]
    /\ nops = 0
    /\ ultima = Nenhuma
    /\ visao = SemVisao

\* A request arrives at a free worker and handler o starts.
Chegada(r, o) ==
    /\ pc[r] = "idle"
    /\ nops < MaxOps
    /\ nops' = nops + 1
    /\ op' = [op EXCEPT ![r] = o]

\* The frame of request r after a step.
Local(r, lugar, a, cid, item, st) ==
    /\ pc' = [pc EXCEPT ![r] = lugar]
    /\ arg' = [arg EXCEPT ![r] = a]
    /\ carrinhoId' = [carrinhoId EXCEPT ![r] = cid]
    /\ itemNoCarrinho' = [itemNoCarrinho EXCEPT ![r] = item]
    /\ resultado' = [resultado EXCEPT ![r] = st]

\* Prisma errors no handler catches: the response is a 500.
Erro500 == {"P2002", "P2003", "P2025"}

\* The handler of r returns with status st and the cart view v in the body;
\* of the request only the route parameters stay on record.
Responde(r, a, st, v) ==
    /\ Local(r, "idle", [a EXCEPT !.dados = SemDados], 0, SemItem, st)
    /\ carrinhoAtualizado' = [carrinhoAtualizado EXCEPT ![r] = SemCarrinho]
    /\ visao' = v

\* The handler of r returns or throws with status st and no cart view.
Termina(r, a, st) == Responde(r, a, st, SemVisao)

\* The handler of r suspends at its next await.
Segue(r, lugar, a, cid, item) ==
    /\ Local(r, lugar, a, cid, item, "nenhum")
    /\ UNCHANGED << carrinhoAtualizado, visao >>

\* The statements of the batch of r have run and returned the cart
\* carrinho; the handler waits for the commit.
Aguarda(r, lugar, carrinho) ==
    /\ Local(r, lugar, arg[r], carrinhoId[r], itemNoCarrinho[r], "nenhum")
    /\ carrinhoAtualizado' = [carrinhoAtualizado EXCEPT ![r] = carrinho]
    /\ UNCHANGED visao

\* The Produto row id is locked by the uncommitted batch of a request other
\* than r: a statement of r that writes the row waits for the commit.
Bloqueado(id, r) ==
    \E x \in Procs \ {r} :
        /\ pc[x] \in {"adicionar_commit", "remover_commit"}
        /\ arg[x].id = id

\* ------------------------------------------------------------- catalog
\* criarProduto: findUnique by nome, ConflictException when found.
criarProduto(r, dados) ==
    /\ Chegada(r, "criarProduto")
    /\ \/ NomeEmUso(db, dados.nome, 0)
       \/ proxProduto + Cardinality({x \in Procs : pc[x] = "criar_create"})
             <= MaxProdutos
    /\ LET a == [SemArg EXCEPT !.dados = dados] IN
       IF NomeEmUso(db, dados.nome, 0)
       THEN Termina(r, a, "Conflict") /\ ultima' = Nenhuma
       ELSE Segue(r, "criar_create", a, 0, SemItem) /\ UNCHANGED ultima
    /\ UNCHANGED << db, proxProduto, proxItem, estoqueOriginal >>

\* criarProduto: prisma.produto.create; the unique index on nome rejects a
\* duplicate that appeared since the findUnique.
criarProdutoCreate(r) ==
    /\ pc[r] = "criar_create"
    /\ IF NomeEmUso(db, arg[r].dados.nome, 0)
       THEN /\ Termina(r, arg[r], "P2002")
            /\ UNCHANGED << db, proxProduto, estoqueOriginal >>
       ELSE /\ Termina(r, arg[r], "ok")
            /\ db' = [db EXCEPT !.produtos = db.produtos @@ (proxProduto :>
                        [nome |-> arg[r].dados.nome,
                         preco |-> arg[r].dados.preco,
                         estoque |-> arg[r].dados.estoque])]
            /\ proxProduto' = proxProduto + 1
            /\ estoqueOriginal' =
                  estoqueOriginal @@ (proxProduto :> arg[r].dados.estoque)
    /\ ultima' = Nenhuma
    /\ UNCHANGED << proxItem, op, nops >>

\* buscarProdutoPorId: NotFoundException when the product is absent.
buscarProdutoPorId(d, id) == id \in DOMAIN d.produtos

\* atualizarProduto: buscarProdutoPorId, then the empty-payload check.
atualizarProduto(r, id, dados) ==
    /\ Chegada(r, "atualizarProduto")
    /\ LET a == [SemArg EXCEPT !.id = id, !.dados = dados] IN
       IF ~buscarProdutoPorId(db, id)
       THEN Termina(r, a, "NotFound") /\ ultima' = Nenhuma
       ELSE IF dados.campos = {}
       THEN Termina(r, a, "BadRequest") /\ ultima' = Nenhuma
       ELSE Segue(r, "atualizar_update", a, 0, SemItem) /\ UNCHANGED ultima
    /\ UNCHANGED << db, proxProduto, proxItem, estoqueOriginal >>

\* Variant of the update that writes every field of the body, supplied or
\* not.
AplicaDadosTodos(p, dados) ==
    [nome |-> dados.nome, preco |-> dados.preco, estoque |-> dados.estoque]

\* The row after prisma.produto.update({ data }) applied the supplied fields.
AplicaDados(p, dados) ==
    [nome    |-> IF "nome" \in dados.campos THEN dados.nome ELSE p.nome,
     preco   |-> IF "preco" \in dados.campos THEN dados.preco ELSE p.preco,
     estoque |-> IF "estoque" \in dados.campos THEN dados.estoque
                 ELSE p.estoque]

\* atualizarProduto: prisma.produto.update; it waits while an uncommitted
\* batch holds the row.
atualizarProdutoUpdate(r) ==
    /\ pc[r] = "atualizar_update"
    /\ ~Bloqueado(arg[r].id, r)
    /\ IF arg[r].id \notin DOMAIN db.produtos
       THEN /\ Termina(r, arg[r], "P2025")
            /\ UNCHANGED << db, estoqueOriginal >>
       ELSE IF /\ "nome" \in arg[r].dados.campos
               /\ NomeEmUso(db, arg[r].dados.nome, arg[r].id)
       THEN /\ Termina(r, arg[r], "P2002")
            /\ UNCHANGED << db, estoqueOriginal >>
       ELSE /\ Termina(r, arg[r], "ok")
            /\ db' = [db EXCEPT !.produtos[arg[r].id] =
                        AplicaDados(@, arg[r].dados)]
            /\ estoqueOriginal' =
                  IF "estoque" \in arg[r].dados.campos
                  THEN [estoqueOriginal EXCEPT ![arg[r].id] = Alterado]
                  ELSE estoqueOriginal
    /\ ultima' = Nenhuma
    /\ UNCHANGED << proxProduto, proxItem, op, nops >>

\* removerProduto: buscarProdutoPorId.
removerProduto(r, id) ==
    /\ Chegada(r, "removerProduto")
    /\ LET a == [SemArg EXCEPT !.id = id] IN
       IF ~buscarProdutoPorId(db, id)
       THEN Termina(r, a, "NotFound") /\ ultima' = Nenhuma
       ELSE Segue(r, "remover_delete", a, 0, SemItem) /\ UNCHANGED ultima
    /\ UNCHANGED << db, proxProduto, proxItem, estoqueOriginal >>

\* removerProduto: prisma.produto.delete; it waits while an uncommitted
\* batch holds the row; ItemCarrinho_produtoId_fkey is ON DELETE RESTRICT.
removerProdutoDelete(r) ==
    /\ pc[r] = "remover_delete"
    /\ ~Bloqueado(arg[r].id, r)
    /\ LET t == ProdutoDelete(db, arg[r].id) IN
       /\ Termina(r, arg[r], t.erro)
       /\ db' = t.db
       /\ estoqueOriginal' =
             IF t.ok THEN [estoqueOriginal EXCEPT ![arg[r].id] = Alterado]
             ELSE estoqueOriginal
    /\ ultima' = Nenhuma
    /\ UNCHANGED << proxProduto, proxItem, op, nops >>

\* ---------------------------------------------------------------- cart
\* obterOuCriarCarrinho, the findUnique: the owner's cart id, 0 when absent.
obterCarrinho(d) ==
    IF CarrinhoDe(d, usuarioId) = {} THEN 0
    ELSE CHOOSE c \in CarrinhoDe(d, usuarioId) : TRUE

\* The lines the loaded cart carries (include: { itens: ... }).
ItensDoCarrinho(d, cid) == {i \in DOMAIN d.itens : d.itens[i].carrinhoId = cid}

\* The cart as findUnique / create / update return it with
\* include: { itens: { include: { produto: true } } }.
CarrinhoComItens(d, cid) ==
    [id |-> cid, usuarioId |-> d.carrinhos[cid].usuarioId,
     itens |-> [i \in ItensDoCarrinho(d, cid) |->
                  [produtoId |-> d.itens[i].produtoId,
                   quantidade |-> d.itens[i].quantidade,
                   produto |-> d.produtos[d.itens[i].produtoId]]]]

\* carrinho.itens.reduce((acc, item) => acc + item.quantidade *
\* item.produto.preco, 0) over the lines S of the loaded cart.
RECURSIVE TotalDe(_, _)
TotalDe(itens, S) ==
    IF S = {} THEN 0
    ELSE LET i == CHOOSE x \in S : TRUE IN
         itens[i].quantidade * itens[i].produto.preco
            + TotalDe(itens, S \ {i})

\* Variant of the view whose total leaves the quantities out.
formatarCarrinhoSemQuantidade(carrinho) ==
    [id |-> carrinho.id, usuarioId |-> carrinho.usuarioId,
     itens |-> [i \in DOMAIN carrinho.itens |->
                  [produtoId |-> carrinho.itens[i].produtoId,
                   nome |-> carrinho.itens[i].produto.nome,
                   quantidade |-> carrinho.itens[i].quantidade,
                   precoUnitario |-> carrinho.itens[i].produto.preco,
                   totalItem |-> carrinho.itens[i].produto.preco]],
     total |-> TotalDe(carrinho.itens, DOMAIN carrinho.itens)]

\* formatarCarrinho.
formatarCarrinho(carrinho) ==
    [id |-> carrinho.id, usuarioId |-> carrinho.usuarioId,
     itens |-> [i \in DOMAIN carrinho.itens |->
                  [produtoId |-> carrinho.itens[i].produtoId,
                   nome |-> carrinho.itens[i].produto.nome,
                   quantidade |-> carrinho.itens[i].quantidade,
                   precoUnitario |-> carrinho.itens[i].produto.preco,
                   totalItem |-> carrinho.itens[i].quantidade
                                    * carrinho.itens[i].produto.preco]],
     total |-> TotalDe(carrinho.itens, DOMAIN carrinho.itens)]

\* Variant of the search that takes any line of the cart.
AcharQualquerItem(d, cid, pid) ==
    LET S == ItensDoCarrinho(d, cid) IN
    IF S = {} THEN SemItem
    ELSE LET i == CHOOSE x \in S : TRUE IN
         [id |-> i, quantidade |-> d.itens[i].quantidade]

\* removerItem: carrinho.itens.find((i) => i.produtoId === produtoId).
AcharItem(d, cid, pid) ==
    LET S == {i \in ItensDoCarrinho(d, cid) : d.itens[i].produtoId = pid} IN
    IF S = {} THEN SemItem
    ELSE LET i == CHOOSE x \in S : TRUE IN
         [id |-> i, quantidade |-> d.itens[i].quantidade]

\* adicionarItem: the request arrives and obterOuCriarCarrinho looks the
\* cart up.
adicionarItem(r, pid, q) ==
    /\ Chegada(r, "adicionarItem")
    /\ proxItem + Cardinality({x \in Procs :
            /\ Ativo(x) /\ op[x] = "adicionarItem"
            /\ pc[x] # "adicionar_commit"}) <= MaxItens
    /\ LET a == [SemArg EXCEPT !.id = pid, !.quantidade = q] IN
       IF obterCarrinho(db) = 0
       THEN Segue(r, "obter_create", a, 0, SemItem)
       ELSE Segue(r, "adicionar_find", a, obterCarrinho(db), SemItem)
    /\ UNCHANGED << db, proxProduto, proxItem, ultima, estoqueOriginal >>

\* verCarrinho: obterOuCriarCarrinho, then formatarCarrinho.
verCarrinho(r) ==
    /\ Chegada(r, "verCarrinho")
    /\ IF obterCarrinho(db) = 0
       THEN Segue(r, "obter_create", SemArg, 0, SemItem) /\ UNCHANGED ultima
       ELSE /\ Responde(r, SemArg, "ok", formatarCarrinho(
                         CarrinhoComItens(db, obterCarrinho(db))))
            /\ ultima' = Nenhuma
    /\ UNCHANGED << db, proxProduto, proxItem, estoqueOriginal >>

\* removerItem: obterOuCriarCarrinho, then the search of the loaded lines.
removerItem(r, pid) ==
    /\ Chegada(r, "removerItem")
    /\ LET a == [SemArg EXCEPT !.id = pid] IN
       IF obterCarrinho(db) = 0
       THEN Segue(r, "obter_create", a, 0, SemItem) /\ UNCHANGED ultima
       ELSE IF AcharItem(db, obterCarrinho(db), pid) = SemItem
       THEN Termina(r, a, "NotFound") /\ ultima' = Nenhuma
       ELSE /\ Segue(r, "remover_tx", a, obterCarrinho(db),
                     AcharItem(db, obterCarrinho(db), pid))
            /\ UNCHANGED ultima
    /\ UNCHANGED << db, proxProduto, proxItem, estoqueOriginal >>

\* obterOuCriarCarrinho, the create: Carrinho_usuarioId_key rejects a
\* second cart of the owner; the caller does not catch the error.
obterOuCriarCarrinhoCreate(r) ==
    /\ pc[r] = "obter_create"
    /\ IF obterCarrinho(db) # 0
       THEN /\ Termina(r, arg[r], "P2002")
            /\ ultima' = Nenhuma
            /\ UNCHANGED db
       ELSE /\ db' = [db EXCEPT !.carrinhos = db.carrinhos @@
                        ((Cardinality(DOMAIN db.carrinhos) + 1) :>
                            [usuarioId |-> usuarioId])]
            /\ IF op[r] = "adicionarItem"
               THEN /\ Segue(r, "adicionar_find", arg[r],
                             Cardinality(DOMAIN db.carrinhos) + 1, SemItem)
                    /\ UNCHANGED ultima
               ELSE IF op[r] = "verCarrinho"
               THEN /\ Responde(r, arg[r], "ok", formatarCarrinho(
                           CarrinhoComItens(db',
                               Cardinality(DOMAIN db.carrinhos) + 1)))
                    /\ ultima' = Nenhuma
               ELSE Termina(r, arg[r], "NotFound") /\ ultima' = Nenhuma
    /\ UNCHANGED << proxProduto, proxItem, op, nops, estoqueOriginal >>

\* Variant of the stock check that only asks whether any stock is left.
EstoqueEsgotado(produto, quantidade) == produto.estoque <= 0

\* adicionarItem: the stock check, produto.estoque < itemDto.quantidade.
EstoqueInsuficiente(produto, quantidade) == produto.estoque < quantidade

\* adicionarItem: findUnique of the product, NotFoundException when absent,
\* BadRequestException when produto.estoque < quantidade.
adicionarItemFind(r) ==
    /\ pc[r] = "adicionar_find"
    /\ IF arg[r].id \notin DOMAIN db.produtos
       THEN Termina(r, arg[r], "NotFound") /\ ultima' = Nenhuma
       ELSE IF EstoqueInsuficiente(db.produtos[arg[r].id], arg[r].quantidade)
       THEN Termina(r, arg[r], "BadRequest") /\ ultima' = Nenhuma
       ELSE /\ Segue(r, "adicionar_tx", arg[r], carrinhoId[r], SemItem)
            /\ UNCHANGED ultima
    /\ UNCHANGED << db, proxProduto, proxItem, op, nops, estoqueOriginal >>

\* The record of a committed batch of request r on the store d it found.
Ultima(r, o, q, d) ==
    [op |-> o, produtoId |-> arg[r].id, quantidade |-> q,
     estoqueAntes |-> EstoqueDe(d, arg[r].id),
     linhaAntes |-> QuantidadeNaLinha(d, arg[r].id, carrinhoId[r]),
     previa |-> IF ultima.produtoId = arg[r].id
                THEN ultima.op ELSE "nenhuma",
     previaQuantidade |-> IF ultima.produtoId = arg[r].id
                          THEN ultima.quantidade ELSE 0,
     previaEstoqueAntes |-> IF ultima.produtoId = arg[r].id
                            THEN ultima.estoqueAntes ELSE 0,
     previaLinhaAntes |-> IF ultima.produtoId = arg[r].id
                          THEN ultima.linhaAntes ELSE 0]

\* The id of the line of product pid in a loaded cart.
LinhaNoCarrinho(carrinho, pid) ==
    CHOOSE i \in DOMAIN carrinho.itens : carrinho.itens[i].produtoId = pid

\* adicionarItem: the statements of the $transaction batch run.  A failing
\* statement aborts the batch and the handler throws; otherwise the batch
\* holds the Produto row and the cart it returned until it commits.
adicionarItemTransacao(r) ==
    /\ pc[r] = "adicionar_tx"
    /\ ~Bloqueado(arg[r].id, r)
    /\ LET t == TransacaoAdicionar(db, carrinhoId[r], arg[r].id,
                                   arg[r].quantidade, proxItem) IN
       IF t.ok
       THEN /\ Aguarda(r, "adicionar_commit",
                       CarrinhoComItens(t.db, carrinhoId[r]))
            /\ proxItem' = IF proxItem \in DOMAIN t.db.itens
                           THEN proxItem + 1 ELSE proxItem
            /\ UNCHANGED << db, ultima >>
       ELSE /\ Termina(r, arg[r], t.erro)
            /\ db' = t.db
            /\ ultima' = Nenhuma
            /\ UNCHANGED proxItem
    /\ UNCHANGED << proxProduto, op, nops, estoqueOriginal >>

\* adicionarItem: the batch commits; the handler returns the cart the batch
\* read, formatted.
adicionarItemCommit(r) ==
    /\ pc[r] = "adicionar_commit"
    /\ LET t == TransacaoAdicionar(db, carrinhoId[r], arg[r].id,
                    arg[r].quantidade,
                    LinhaNoCarrinho(carrinhoAtualizado[r], arg[r].id)) IN
       /\ Responde(r, arg[r], t.erro, formatarCarrinho(carrinhoAtualizado[r]))
       /\ db' = t.db
       /\ ultima' = Ultima(r, "adicionarItem", arg[r].quantidade, db)
    /\ UNCHANGED << proxProduto, proxItem, op, nops, estoqueOriginal >>

\* removerItem: the statements of the $transaction batch run.
removerItemTransacao(r) ==
    /\ pc[r] = "remover_tx"
    /\ ~Bloqueado(arg[r].id, r)
    /\ LET t == TransacaoRemover(db, carrinhoId[r], arg[r].id,
                                 itemNoCarrinho[r]) IN
       IF t.ok
       THEN /\ Aguarda(r, "remover_commit",
                       CarrinhoComItens(t.db, carrinhoId[r]))
            /\ UNCHANGED << db, ultima >>
       ELSE /\ Termina(r, arg[r], t.erro)
            /\ db' = t.db
            /\ ultima' = Nenhuma
    /\ UNCHANGED << proxProduto, proxItem, op, nops, estoqueOriginal >>

\* removerItem: the batch commits; the handler returns the cart the batch
\* read, formatted.
removerItemCommit(r) ==
    /\ pc[r] = "remover_commit"
    /\ LET t == TransacaoRemover(db, carrinhoId[r], arg[r].id,
                                 itemNoCarrinho[r]) IN
       /\ Responde(r, arg[r], t.erro, formatarCarrinho(carrinhoAtualizado[r]))
       /\ db' = t.db
       /\ ultima' = Ultima(r, "removerItem", itemNoCarrinho[r].quantidade, db)
    /\ UNCHANGED << proxProduto, proxItem, op, nops, estoqueOriginal >>

\* One step of request r.
Passo(r) ==
    \/ \E dados \in DadosCriar : criarProduto(r, dados)
    \/ criarProdutoCreate(r)
    \/ \E id \in ProdIds, dados \in DadosAtualizar :
          atualizarProduto(r, id, dados)
    \/ atualizarProdutoUpdate(r)
    \/ \E id \in ProdIds : removerProduto(r, id)
    \/ removerProdutoDelete(r)
    \/ \E pid \in ProdIds, q \in Quantidades : adicionarItem(r, pid, q)
    \/ adicionarItemFind(r)
    \/ adicionarItemTransacao(r)
    \/ adicionarItemCommit(r)
    \/ verCarrinho(r)
    \/ \E pid \in ProdIds : removerItem(r, pid)
    \/ removerItemTransacao(r)
    \/ removerItemCommit(r)
    \/ obterOuCriarCarrinhoCreate(r)

Next == \E r \in Procs : Passo(r)

Spec == Init /\ [][Next]_vars

\* One step of a cart request r.
PassoCarrinho(r) ==
    \/ \E pid \in ProdIds, q \in Quantidades : adicionarItem(r, pid, q)
    \/ adicionarItemFind(r)
    \/ adicionarItemTransacao(r)
    \/ adicionarItemCommit(r)
    \/ verCarrinho(r)
    \/ \E pid \in ProdIds : removerItem(r, pid)
    \/ removerItemTransacao(r)
    \/ removerItemCommit(r)
    \/ obterOuCriarCarrinhoCreate(r)

\* Concurrent cart requests only.
NextCarrinho == \E r \in Procs : PassoCarrinho(r)
SpecCarrinho == Init /\ [][NextCarrinho]_vars

\* Cart requests racing deletions of products.
PassoExclusao(r) ==
    \/ PassoCarrinho(r)
    \/ \E id \in ProdIds : removerProduto(r, id)
    \/ removerProdutoDelete(r)
NextExclusao == \E r \in Procs : PassoExclusao(r)
SpecExclusao == Init /\ [][NextExclusao]_vars

\* One step of a catalog request r.
PassoCatalogo(r) ==
    \/ \E dados \in DadosCriar : criarProduto(r, dados)
    \/ criarProdutoCreate(r)
    \/ \E id \in ProdIds, dados \in DadosAtualizar :
          atualizarProduto(r, id, dados)
    \/ atualizarProdutoUpdate(r)
    \/ \E id \in ProdIds : removerProduto(r, id)
    \/ removerProdutoDelete(r)

\* Concurrent catalog requests only.
NextCatalogo == \E r \in Procs : PassoCatalogo(r)
SpecCatalogo == Init /\ [][NextCatalogo]_vars

\* One atualizarProduto request on worker r2 racing one request of any
\* other kind on worker r1.
atualizarProdutoUmaVez(r, id, dados) ==
    op[r] = "nenhuma" /\ atualizarProduto(r, id, dados)
PassoDaAtualizacao(r) ==
    \/ \E id \in ProdIds, dados \in DadosAtualizar :
          atualizarProdutoUmaVez(r, id, dados)
    \/ atualizarProdutoUpdate(r)
PassoDoOutro(r) ==
    /\ op[r] = "nenhuma" \/ pc[r] # "idle"
    /\ \/ PassoExclusao(r)
       \/ \E dados \in DadosCriar : criarProduto(r, dados)
       \/ criarProdutoCreate(r)
NextEdicao == PassoDoOutro("r1") \/ PassoDaAtualizacao("r2")
SpecEdicao == Init /\ [][NextEdicao]_vars

\* Cart requests, deletions and creations of products served one at a
\* time: the next arrives after the response.
NextSeq ==
    \/ PassoExclusao("r1")
    \/ \E dados \in DadosCriar : criarProduto("r1", dados)
    \/ criarProdutoCreate("r1")
SpecSeq == Init /\ [][NextSeq]_vars

\* Two adicionarItem requests, one per worker, against a store whose cart
\* exists and is empty: nothing else runs.
adicionarItemUmaVez(r, pid, q) ==
    op[r] = "nenhuma" /\ adicionarItem(r, pid, q)
InitCorrida == Init /\ obterCarrinho(db) # 0 /\ DOMAIN db.itens = {}
NextCorrida ==
    \E r \in Procs :
        \/ \E pid \in ProdIds, q \in Quantidades :
              adicionarItemUmaVez(r, pid, q)
        \/ adicionarItemFind(r)
        \/ adicionarItemTransacao(r)
        \/ adicionarItemCommit(r)
SpecCorrida == InitCorrida /\ [][NextCorrida]_vars

\* ---------------------------------------------------------------- claims
Acabou(r, o) == pc[r] = "idle" /\ op[r] = o /\ resultado[r] # "nenhum"

\* C1: in every reachable state, every product has estoque >= 0.
EstoqueNaoNegativo ==
    \A p \in DOMAIN db.produtos : db.produtos[p].estoque >= 0

\* C2: two adicionarItem calls for the same product p and quantidade q, started
\* from estoque(p) = e0 with q <= e0 < 2*q: exactly one succeeds, the other
\* fails with BadRequest, and the final estoque(p) is e0 - q.
UmaAdicaoVence ==
    \A r1, r2 \in Procs :
        ( /\ r1 # r2
          /\ Acabou(r1, "adicionarItem") /\ Acabou(r2, "adicionarItem")
          /\ arg[r1].id = arg[r2].id
          /\ arg[r1].quantidade = arg[r2].quantidade
          /\ arg[r1].id \in DOMAIN db.produtos
          /\ arg[r1].quantidade <= estoqueOriginal[arg[r1].id]
          /\ 2 * arg[r1].quantidade > estoqueOriginal[arg[r1].id] )
        => /\ {resultado[r1], resultado[r2]} = {"ok", "BadRequest"}
           /\ db.produtos[arg[r1].id].estoque =
                 estoqueOriginal[arg[r1].id] - arg[r1].quantidade

\* C3: for every product whose estoque no catalog update or delete changed,
\* estoque plus the quantidade of all its cart lines equals the estoque the
\* product was created with.
Conservacao ==
    \A p \in DOMAIN db.produtos :
        estoqueOriginal[p] # Alterado =>
            db.produtos[p].estoque + Reservado(db, p) = estoqueOriginal[p]

\* C4: every step of an adicionarItem call either decrements estoque(p) by
\* quantidade and creates or increments the line of (p, cart) by quantidade,
\* with the call succeeding, or changes no product and no line.
PassoDeAdicao(r) ==
    op[r] = "adicionarItem" /\ pc[r] # "idle" /\ pc'[r] # pc[r]
AmbasMudancas(r) ==
    /\ resultado'[r] = "ok"
    /\ arg[r].id \in DOMAIN db.produtos
    /\ arg[r].id \in DOMAIN db'.produtos
    /\ db'.produtos[arg[r].id].estoque =
          db.produtos[arg[r].id].estoque - arg[r].quantidade
    /\ Cardinality(LinhasDe(db', arg[r].id, carrinhoId[r])) = 1
    /\ QuantidadeNaLinha(db', arg[r].id, carrinhoId[r]) =
          QuantidadeNaLinha(db, arg[r].id, carrinhoId[r]) + arg[r].quantidade
NenhumaMudanca(r) ==
    /\ resultado'[r] # "ok"
    /\ db'.produtos = db.produtos
    /\ db'.itens = db.itens
AdicaoTudoOuNada ==
    [][\A r \in Procs :
          PassoDeAdicao(r) => AmbasMudancas(r) \/ NenhumaMudanca(r)]_vars
\* An adicionarItem call whose batch aborted: its product was deleted
\* between the stock check and the batch.
AdicaoAbortada ==
    \E r \in Procs : Acabou(r, "adicionarItem") /\ resultado[r] = "P2025"

\* For each (product, cart) pair at most one line exists.
LinhaUnica ==
    \A i, j \in DOMAIN db.itens :
        ( /\ db.itens[i].produtoId = db.itens[j].produtoId
          /\ db.itens[i].carrinhoId = db.itens[j].carrinhoId ) => i = j
\* C5: for each (product, cart) pair at most one line exists, and every line
\* has quantidade >= 1.
LinhaUnicaPositiva ==
    /\ LinhaUnica
    /\ \A i \in DOMAIN db.itens : db.itens[i].quantidade >= 1

\* The step at which a removerItem(p) call ends, p being the product of the
\* successful adicionarItem that finished last.
VoltaTermina(r) ==
    /\ ultima.op = "adicionarItem"
    /\ pc'[r] = "idle"
    /\ \/ /\ pc[r] \in {"remover_tx", "remover_commit"}
          /\ arg[r].id = ultima.produtoId
       \/ removerItem(r, ultima.produtoId)

\* C6 as stated: adicionarItem(p, n) and then removerItem(p), nothing in
\* between, restores estoque(p) to its value before the add and leaves no
\* line for p.
IdaEVoltaRestauraEstoque ==
    [][\A r \in Procs :
          VoltaTermina(r) =>
             /\ resultado'[r] = "ok"
             /\ EstoqueDe(db', ultima.produtoId) = ultima.estoqueAntes
             /\ Referencias(db', ultima.produtoId) = {}]_vars

\* C6 amended: adicionarItem(p, n) and then removerItem(p), nothing in
\* between, leaves no line for p and estoque(p) at its value before the add
\* plus the quantidade the line of p held before the add.
IdaEVoltaDevolveALinha ==
    [][\A r \in Procs :
          VoltaTermina(r) =>
             /\ resultado'[r] = "ok"
             /\ EstoqueDe(db', ultima.produtoId) =
                   ultima.estoqueAntes + ultima.linhaAntes
             /\ Referencias(db', ultima.produtoId) = {}]_vars
\* A removerItem has just undone the adicionarItem that finished before it.
IdaEVoltaFeita ==
    /\ ultima.op = "removerItem"
    /\ ultima.previa = "adicionarItem"
    /\ Referencias(db, ultima.produtoId) = {}
    /\ EstoqueDe(db, ultima.produtoId) = ultima.estoqueAntes + ultima.quantidade

\* C7: the product lookup of adicionarItem ends the call with NotFound when
\* the product is absent and with BadRequest when estoque < quantidade, and
\* the store is left as it was.
AdicaoRecusada ==
    [][\A r \in Procs :
          (pc[r] = "adicionar_find" /\ pc'[r] # pc[r]) =>
             /\ arg[r].id \notin DOMAIN db.produtos =>
                   resultado'[r] = "NotFound" /\ pc'[r] = "idle" /\ db' = db
             /\ ( /\ arg[r].id \in DOMAIN db.produtos
                  /\ db.produtos[arg[r].id].estoque < arg[r].quantidade ) =>
                   resultado'[r] = "BadRequest" /\ pc'[r] = "idle" /\ db' = db
      ]_vars
\* One call was refused for stock and another for an unknown product.
AdicoesRecusadas ==
    \E r1, r2 \in Procs :
        /\ Acabou(r1, "adicionarItem") /\ resultado[r1] = "BadRequest"
        /\ EstoqueDe(db, arg[r1].id) >= 0
        /\ EstoqueDe(db, arg[r1].id) < arg[r1].quantidade
        /\ Acabou(r2, "adicionarItem") /\ resultado[r2] = "NotFound"
        /\ arg[r2].id \notin DOMAIN db.produtos

\* C8: a removerItem(p) call that resolves the owner's cart and finds no
\* line for p in it ends with NotFound and changes no product and no line;
\* a call reaches its batch only with a line of p in hand.
RemocaoRecusada ==
    [][\A r \in Procs :
          /\ \A pid \in ProdIds :
                ( /\ removerItem(r, pid)
                  /\ obterCarrinho(db) # 0
                  /\ LinhasDe(db, pid, obterCarrinho(db)) = {} ) =>
                   resultado'[r] = "NotFound" /\ pc'[r] = "idle" /\ db' = db
          /\ ( /\ pc[r] = "obter_create" /\ pc'[r] # pc[r]
               /\ op[r] = "removerItem"
               /\ obterCarrinho(db) = 0 ) =>
                   /\ resultado'[r] = "NotFound" /\ pc'[r] = "idle"
                   /\ db'.produtos = db.produtos /\ db'.itens = db.itens
          /\ (pc[r] # "remover_tx" /\ pc'[r] = "remover_tx") =>
                   /\ itemNoCarrinho'[r].id \in
                         LinhasDe(db, arg'[r].id, carrinhoId'[r])
                   /\ db' = db
      ]_vars
\* A removal was refused while the cart holds a line of another product.
RemocaoNaoEncontrada ==
    \E r \in Procs :
        /\ Acabou(r, "removerItem") /\ resultado[r] = "NotFound"
        /\ obterCarrinho(db) # 0
        /\ LinhasDe(db, arg[r].id, obterCarrinho(db)) = {}
        /\ ItensDoCarrinho(db, obterCarrinho(db)) # {}

\* C9: a successful removerItem(p) increases estoque(p) by the quantidade the
\* line of p holds when it is deleted, and deletes that line.
RemocaoDevolveQuantidadeAtual ==
    [][\A r \in Procs :
          ( /\ pc[r] = "remover_commit" /\ pc'[r] = "idle"
            /\ resultado'[r] = "ok" ) =>
             /\ EstoqueDe(db', arg[r].id) =
                   EstoqueDe(db, arg[r].id)
                     + QuantidadeNaLinha(db, arg[r].id, carrinhoId[r])
             /\ LinhasDe(db', arg[r].id, carrinhoId[r]) = {}]_vars

\* C10: no obterOuCriarCarrinho call ends in an error, every call returns
\* the one cart of the owner, and the owner never has two carts.
CarrinhoUnicoSemErro ==
    /\ \A r \in Procs :
          op[r] \in {"adicionarItem", "verCarrinho", "removerItem"} =>
              resultado[r] # "P2002"
    /\ \A r \in Procs : carrinhoId[r] # 0 => carrinhoId[r] = obterCarrinho(db)
    /\ Cardinality(CarrinhoDe(db, usuarioId)) <= 1

\* C11: a criarProduto call ends with Conflict whenever a product with its
\* nome exists, at the lookup and at the create (where a concurrent create
\* of the same nome committed first), and no two products ever share a
\* nome.
NomesUnicos ==
    \A i, j \in DOMAIN db.produtos :
        db.produtos[i].nome = db.produtos[j].nome => i = j
CriacaoEmConflito ==
    /\ []NomesUnicos
    /\ [][\A r \in Procs :
             /\ \A dados \in DadosCriar :
                   (criarProduto(r, dados) /\ NomeEmUso(db, dados.nome, 0)) =>
                      resultado'[r] = "Conflict" /\ db' = db
             /\ ( /\ pc[r] = "criar_create" /\ pc'[r] # pc[r]
                  /\ NomeEmUso(db, arg[r].dados.nome, 0) ) =>
                      resultado'[r] = "Conflict" /\ db' = db]_vars

\* The step at which the delete statement of a removerProduto call runs on
\* a product that is still there.
ExclusaoExecuta(r) ==
    /\ pc[r] = "remover_delete" /\ pc'[r] # pc[r]
    /\ arg[r].id \in DOMAIN db.produtos
\* A removerProduto call that finds no product at its lookup ends with
\* NotFound and changes nothing.
ExclusaoNaoEncontrada(r) ==
    \A id \in ProdIds :
        (removerProduto(r, id) /\ id \notin DOMAIN db.produtos) =>
            resultado'[r] = "NotFound" /\ pc'[r] = "idle" /\ db' = db

\* C12 as stated: removerProduto ends with NotFound when no product has the
\* id and otherwise removes the product, also when a cart line references
\* it.
ExclusaoRemoveSempre ==
    [][\A r \in Procs :
          /\ ExclusaoNaoEncontrada(r)
          /\ ExclusaoExecuta(r) =>
                /\ resultado'[r] = "ok"
                /\ arg[r].id \notin DOMAIN db'.produtos]_vars

\* C12 amended: removerProduto ends with NotFound when no product has the
\* id; when a cart line references the product the store rejects the
\* delete (P2003) and nothing changes; otherwise that product alone is
\* removed.
ExclusaoRestritaPorLinhas ==
    [][\A r \in Procs :
          /\ ExclusaoNaoEncontrada(r)
          /\ ExclusaoExecuta(r) =>
                IF Referencias(db, arg[r].id) # {}
                THEN resultado'[r] = "P2003" /\ db' = db
                ELSE /\ resultado'[r] = "ok"
                     /\ db'.produtos = Sem(db.produtos, arg[r].id)
                     /\ db'.itens = db.itens
                     /\ db'.carrinhos = db.carrinhos]_vars
\* A delete was rejected and the product and the line that references it
\* are still there.
ExclusaoRejeitada ==
    \E r \in Procs :
        /\ Acabou(r, "removerProduto") /\ resultado[r] = "P2003"
        /\ arg[r].id \in DOMAIN db.produtos
        /\ Referencias(db, arg[r].id) # {}

\* The value a field of a product has after an update with body dados.
CampoAtualizado(antes, depois, dados, campo) ==
    depois[campo] = IF campo \in dados.campos THEN dados[campo]
                    ELSE antes[campo]

\* C13: atualizarProduto ends with NotFound when no product has the id,
\* whatever the body, the empty one included; with BadRequest when the
\* product exists and the body has no field; it goes on to the update only
\* with an existing product and a body that has a field; an update that
\* fails changes no product; an update that succeeds changes only the
\* supplied fields of that one product.  (A call that ends at the lookup
\* keeps nothing of its body, so the step of a call with an absent id is the
\* same step whatever the body.)
AtualizacaoValidada ==
    [][\A r \in Procs :
          /\ \A id \in ProdIds :
                atualizarProduto(r, id, SemDados) =>
                   /\ db' = db /\ pc'[r] = "idle"
                   /\ resultado'[r] = IF id \in DOMAIN db.produtos
                                      THEN "BadRequest" ELSE "NotFound"
          /\ (pc[r] = "idle" /\ pc'[r] = "atualizar_update") =>
                   /\ db' = db
                   /\ arg'[r].id \in DOMAIN db.produtos
                   /\ arg'[r].dados.campos # {}
          /\ (pc[r] = "atualizar_update" /\ pc'[r] # pc[r]) =>
                IF resultado'[r] = "ok"
                THEN /\ DOMAIN db'.produtos = DOMAIN db.produtos
                     /\ arg[r].id \in DOMAIN db.produtos
                     /\ \A p \in (DOMAIN db.produtos) \ {arg[r].id} :
                           db'.produtos[p] = db.produtos[p]
                     /\ \A campo \in Campos :
                           CampoAtualizado(db.produtos[arg[r].id],
                                           db'.produtos[arg[r].id],
                                           arg[r].dados, campo)
                     /\ db'.itens = db.itens
                     /\ db'.carrinhos = db.carrinhos
                ELSE db' = db]_vars
\* An update that supplied preco alone has just succeeded on the first
\* product of the store.
PrecoAtualizado ==
    \E r \in Procs :
        /\ Acabou(r, "atualizarProduto") /\ resultado[r] = "ok"
        /\ arg[r].id = 1
        /\ estoqueOriginal[1] # Alterado
        /\ db.produtos[1].nome = "A"
        /\ db.produtos[1].preco = 2

\* The step is the commit of a successful adicionarItem of product p, and
\* estoque(p) becomes estoque(p) minus the quantidade of the call.
ReservaDe(p) ==
    \E r \in Procs :
        /\ pc[r] = "adicionar_commit" /\ pc'[r] = "idle"
        /\ resultado'[r] = "ok" /\ arg[r].id = p
        /\ db'.produtos[p].estoque =
              db.produtos[p].estoque - arg[r].quantidade
\* The step is the commit of a successful removerItem of product p, and
\* estoque(p) becomes estoque(p) plus the quantidade the call read from the
\* line.
LiberacaoDe(p) ==
    \E r \in Procs :
        /\ pc[r] = "remover_commit" /\ pc'[r] = "idle"
        /\ resultado'[r] = "ok" /\ arg[r].id = p
        /\ db'.produtos[p].estoque =
              db.produtos[p].estoque + itemNoCarrinho[r].quantidade
\* The step is the update of a successful atualizarProduto of product p whose
\* body supplies estoque, and estoque(p) becomes the supplied value.
EstoqueInformado(p) ==
    \E r \in Procs :
        /\ pc[r] = "atualizar_update" /\ pc'[r] = "idle"
        /\ resultado'[r] = "ok" /\ arg[r].id = p
        /\ "estoque" \in arg[r].dados.campos
        /\ db'.produtos[p].estoque = arg[r].dados.estoque

AdicaoRepetidaSoma ==
    ultima.op = "adicionarItem" =>
        /\ Cardinality(LinhasDe(db, ultima.produtoId, obterCarrinho(db))) = 1
        /\ QuantidadeNaLinha(db, ultima.produtoId, obterCarrinho(db)) =
              ultima.linhaAntes + ultima.quantidade
        /\ EstoqueDe(db, ultima.produtoId) =
              ultima.estoqueAntes - ultima.quantidade
        /\ ultima.previa = "adicionarItem" =>
              /\ QuantidadeNaLinha(db, ultima.produtoId, obterCarrinho(db)) =
                    ultima.previaLinhaAntes + ultima.previaQuantidade
                       + ultima.quantidade
              /\ EstoqueDe(db, ultima.produtoId) =
                    ultima.previaEstoqueAntes
                       - (ultima.previaQuantidade + ultima.quantidade)
\* Two adicionarItem calls for a product have just succeeded one after the
\* other, the first creating the line.
DuasAdicoesSomadas ==
    /\ ultima.op = "adicionarItem" /\ ultima.previa = "adicionarItem"
    /\ ultima.previaLinhaAntes = 0
    /\ QuantidadeNaLinha(db, ultima.produtoId, obterCarrinho(db)) =
          ultima.previaQuantidade + ultima.quantidade

\* Sum of totalItem over the lines S of a cart view.
RECURSIVE SomaTotalItem(_, _)
SomaTotalItem(itens, S) ==
    IF S = {} THEN 0
    ELSE LET i == CHOOSE x \in S : TRUE IN
         itens[i].totalItem + SomaTotalItem(itens, S \ {i})

\* The view v shows the lines of the cart of d as d stores them, each with
\* the preco of its product as d stores it.
VisaoDaLoja(v, d) ==
    /\ v.id = obterCarrinho(d)
    /\ DOMAIN v.itens = ItensDoCarrinho(d, v.id)
    /\ \A i \in DOMAIN v.itens :
          /\ v.itens[i].produtoId = d.itens[i].produtoId
          /\ v.itens[i].quantidade = d.itens[i].quantidade
          /\ v.itens[i].precoUnitario = d.produtos[d.itens[i].produtoId].preco
\* In the view v every totalItem is quantidade * precoUnitario and total is
\* the sum of the totalItem of its lines (0 without lines).
VisaoSomada(v) ==
    /\ \A i \in DOMAIN v.itens :
          v.itens[i].totalItem =
             v.itens[i].quantidade * v.itens[i].precoUnitario
    /\ v.total = SomaTotalItem(v.itens, DOMAIN v.itens)
\* The cart c a batch on product p returned holds the lines of the other
\* products of the cart as the store holds them when the batch runs.
OutrasLinhasLidas(c, r) ==
    /\ c.id = carrinhoId[r]
    /\ {i \in DOMAIN c.itens : c.itens[i].produtoId # arg[r].id} =
          {i \in ItensDoCarrinho(db, carrinhoId[r]) :
              db.itens[i].produtoId # arg[r].id}
    /\ \A i \in DOMAIN c.itens :
          c.itens[i].produtoId # arg[r].id =>
             /\ c.itens[i].produtoId = db.itens[i].produtoId
             /\ c.itens[i].quantidade = db.itens[i].quantidade
             /\ c.itens[i].produto = db.produtos[db.itens[i].produtoId]
\* The cart c holds one line of the product of r, with quantidade q and the
\* product as stored but for estoque e.
LinhaPropriaLida(c, r, q, e) ==
    \E i \in DOMAIN c.itens :
        /\ \A j \in DOMAIN c.itens :
              c.itens[j].produtoId = arg[r].id => j = i
        /\ c.itens[i].produtoId = arg[r].id
        /\ c.itens[i].quantidade = q
        /\ c.itens[i].produto =
              [db.produtos[arg[r].id] EXCEPT !.estoque = e]

LinhaDevolvidaUmaVez ==
    [][/\ \A r \in Procs :
             /\ ( /\ pc[r] = "remover_tx" /\ pc'[r] # pc[r]
                  /\ itemNoCarrinho[r].id \notin DOMAIN db.itens ) =>
                   pc'[r] = "idle" /\ resultado'[r] # "ok" /\ db' = db
             /\ ( /\ pc[r] \in {"remover_tx", "remover_commit"}
                  /\ pc'[r] # pc[r]
                  /\ db'.produtos # db.produtos ) =>
                   /\ pc[r] = "remover_commit" /\ resultado'[r] = "ok"
                   /\ itemNoCarrinho[r].id \in DOMAIN db.itens
                   /\ itemNoCarrinho[r].id \notin DOMAIN db'.itens
       /\ \A r \in Procs :
             (pc[r] = "adicionar_tx" /\ pc'[r] = "adicionar_commit") =>
                \A i \in (DOMAIN carrinhoAtualizado'[r].itens)
                             \ (DOMAIN db.itens) :
                   i = proxItem /\ proxItem' > i
       /\ \A i \in (DOMAIN db'.itens) \ (DOMAIN db.itens) :
             /\ i < proxItem
             /\ \E r \in Procs :
                   /\ pc[r] = "adicionar_commit" /\ pc'[r] = "idle"
                   /\ i \in DOMAIN carrinhoAtualizado[r].itens]_vars
\* Two removerItem calls read the same line; one returned it to estoque, the
\* other failed, and every unit of the product is back in estoque.
RemocaoDuplaAbortada ==
    \E r1, r2 \in Procs :
        /\ r1 # r2
        /\ Acabou(r1, "removerItem") /\ resultado[r1] = "ok"
        /\ Acabou(r2, "removerItem") /\ resultado[r2] = "P2025"
        /\ arg[r1].id = arg[r2].id
        /\ arg[r1].id \in DOMAIN db.produtos
        /\ Referencias(db, arg[r1].id) = {}
        /\ db.produtos[arg[r1].id].estoque = estoqueOriginal[arg[r1].id]

\* C18: every cart line references a product that exists and a cart that
\* exists.
IntegridadeReferencial ==
    \A i \in DOMAIN db.itens :
        /\ db.itens[i].produtoId \in DOMAIN db.produtos
        /\ db.itens[i].carrinhoId \in DOMAIN db.carrinhos
\* A delete of a product was refused because an adicionarItem had committed
\* a line for it.
ExclusaoPerdeParaAdicao ==
    \E r1, r2 \in Procs :
        /\ Acabou(r1, "removerProduto") /\ resultado[r1] = "P2003"
        /\ Acabou(r2, "adicionarItem") /\ resultado[r2] = "ok"
        /\ arg[r1].id = arg[r2].id
        /\ QuantidadeNaLinha(db, arg[r2].id, obterCarrinho(db)) =
              arg[r2].quantidade

\* C19: the commit of a successful adicionarItem or removerItem of product p
\* leaves nome and preco of p, every other product, every line of another
\* product and every cart as they were, and creates no line but one of p in
\* the cart of the call.
SoOProdutoEALinha ==
    [][\A r \in Procs :
          ( /\ pc[r] \in {"adicionar_commit", "remover_commit"}
            /\ pc'[r] = "idle" /\ resultado'[r] = "ok" ) =>
             /\ DOMAIN db'.produtos = DOMAIN db.produtos
             /\ \A p \in DOMAIN db.produtos :
                   IF p = arg[r].id
                   THEN /\ db'.produtos[p].nome = db.produtos[p].nome
                        /\ db'.produtos[p].preco = db.produtos[p].preco
                   ELSE db'.produtos[p] = db.produtos[p]
             /\ \A i \in DOMAIN db.itens :
                   ( \/ db.itens[i].produtoId # arg[r].id
                     \/ db.itens[i].carrinhoId # carrinhoId[r] ) =>
                      i \in DOMAIN db'.itens /\ db'.itens[i] = db.itens[i]
             /\ \A i \in (DOMAIN db'.itens) \ (DOMAIN db.itens) :
                   /\ db'.itens[i].produtoId = arg[r].id
                   /\ db'.itens[i].carrinhoId = carrinhoId[r]
             /\ db'.carrinhos = db.carrinhos]_vars
\* An adicionarItem of the second product has just succeeded in a store that
\* holds a line of the first product.
AdicaoAoLadoDeOutraLinha ==
    /\ ultima.op = "adicionarItem" /\ ultima.produtoId = 2
    /\ Referencias(db, 1) # {}
    /\ Referencias(db, 2) # {}

====
